---- MODULE Spec2Model ----
(***************************************************************************)
(* Warming-threshold timing notebook                                       *)
(* (notebooks/2_global_warming_thresholds_impacts/                         *)
(*  cmip6_historical_ssp_gmtas_calculate_warming_thresholds_timing.ipynb). *)
(*                                                                         *)
(* The state is the notebook kernel's global namespace; every code cell is *)
(* one action.  Temperatures are carried as exact rationals: an integer    *)
(* numerator in tenths of a degree over a positive integer denominator, so *)
(* a mean is its sum over its count and `>=' compares cross-multiplied.    *)
(* Sequences are 1-based: position i here is index i-1 in the notebook.    *)
(***************************************************************************)
EXTENDS Integers, Sequences, FiniteSets, TLC

VARIABLES
    datasets_historical,  \* catalog: historical datasets, in dict order
    datasets_ssp,         \* catalog: ssp datasets, in dict order
    cmip6_models,         \* list of model names filled by the loading loop
    cmip6_gmtm,           \* global-mean series accumulated along 'model'
    cmip6_gmtm_anom,      \* anomalies from the pre-industrial baseline
    rolling_ave_window,   \* window of the rolling average
    temps,                \* list of warming thresholds
    temp,                 \* loop variable / selected threshold (shared global)
    annual,               \* loop body: series of the current model
    smoothed,             \* loop body: its centred rolling mean
    year_temp_smoothed,   \* loop body: first year at or above the threshold
    firstyear_rolling,    \* vars()['firstyear_rolling_<str(temp)>C'], by str(temp)
    all_temps_rolling,    \* export: the crossing years, one row per model
    cmip6_models_warminglevels_df_rolling,  \* export: the table written to csv
    summary,              \* what the summary cell printed
    pending,              \* models whose loop iteration is still to run
    plotted,              \* what the distribution cell last drew
    error,                \* exception raised by the last cell run ("none")
    cell                  \* the cell (or loop-body statement) run last

vars == <<datasets_historical, datasets_ssp, cmip6_models, cmip6_gmtm,
          cmip6_gmtm_anom, rolling_ave_window, temps, temp, annual, smoothed,
          year_temp_smoothed, firstyear_rolling, all_temps_rolling,
          cmip6_models_warminglevels_df_rolling, summary, pending, plotted, error, cell>>

(***************************************************************************)
(* Bounds of the model.                                                    *)
(***************************************************************************)
NumYears == 4        \* years of a generated series
MaxLevel == 4        \* generated values are 0 .. MaxLevel degrees, whole degrees
MaxModels == 2       \* datasets per catalog / models per generated ensemble

(***************************************************************************)
(* Values.                                                                 *)
(***************************************************************************)
NaN == -999999                      \* numpy's nan: "no value"
IsNaN(v) == v = NaN
Tenths == 10                        \* numerators are tenths of a degree

Min(S) == CHOOSE x \in S : \A y \in S : x <= y
Max(S) == CHOOSE x \in S : \A y \in S : x >= y
Range(s) == {s[i] : i \in DOMAIN s}

\* A value that was never assigned (reading it raises NameError).
Undefined == [def |-> FALSE]

\* A one-dimensional DataArray over 'year': num[i]/den at year[i].
Series(years, nums, d) == [def |-> TRUE, year |-> years, num |-> nums, den |-> d]

(***************************************************************************)
(* annual.rolling(year=W, center=True).mean(), as xarray computes it for a *)
(* one-dimensional array: pad -shift missing values at the end, take the   *)
(* trailing moving mean with min_count = W, drop the first -shift entries. *)
(***************************************************************************)
\* Mutant: the window centred half a year later (i-W/2+1 .. i+W/2 for even W).
PadEndLate(W) == W \div 2

\* -shift, where shift = (-W // 2) + 1 with Python's floor division.
PadEnd(W) == (W - 1) \div 2

\* bottleneck.move_mean(a, window=W, min_count=W) at position j, times W:
\* the sum of a[j-W+1 .. j], missing when the window is not full of values.
RECURSIVE SumRange(_, _, _)
SumRange(a, lo, hi) == IF lo > hi THEN 0 ELSE a[lo] + SumRange(a, lo + 1, hi)

\* Mutant: min_count = 1, the mean of whatever values the window holds.
move_sum_skipna(a, W, j) ==
    IF j - W + 1 < 1 THEN NaN
    ELSE SumRange([k \in DOMAIN a |-> IF IsNaN(a[k]) THEN 0 ELSE a[k]], j - W + 1, j)

move_sum(a, W, j) ==
    IF j - W + 1 < 1 THEN NaN
    ELSE IF \E k \in (j - W + 1)..j : IsNaN(a[k]) THEN NaN
    ELSE SumRange(a, j - W + 1, j)

rolling_mean_pos(nums, W) ==
    LET padded == nums \o [k \in 1..PadEnd(W) |-> NaN]
    IN  [i \in 1..Len(nums) |-> move_sum(padded, W, i + PadEnd(W))]

rolling_mean(a, W) ==
    Series(a.year, rolling_mean_pos(a.num, W), a.den * W)

\* The moving-window routine xarray hands a one-dimensional array to when the
\* bottleneck package is installed refuses a window longer than the padded
\* array (ValueError); without the package the windows are built by padding
\* and the mean is nan everywhere.  The notebook does not pin either.
rolling_outcomes(n, W) ==
    IF W > n + PadEnd(W) THEN {"none", "ValueError"} ELSE {"none"}

(***************************************************************************)
(* smoothed >= temp, elementwise (a comparison with nan is False), then    *)
(* smoothed.year.where(cond, drop=True).year: the years kept.              *)
(***************************************************************************)
\* Mutant: strictly above the threshold.
AtOrAboveStrict(sm, i, t) == ~IsNaN(sm.num[i]) /\ sm.num[i] > t.tenths * sm.den

AtOrAbove(sm, i, t) == ~IsNaN(sm.num[i]) /\ sm.num[i] >= t.tenths * sm.den

where_drop(sm, t) == {sm.year[i] : i \in {k \in DOMAIN sm.year : AtOrAbove(sm, k, t)}}

\* Mutant: the last year at or above the threshold (max for min).
first_crossing_year_last(sm, t) ==
    LET kept == where_drop(sm, t)
    IN  IF kept = {} THEN [exc |-> "ValueError", year |-> 0]
        ELSE [exc |-> "none", year |-> Max(kept)]

\* (...).year.min().item(): numpy's minimum of an empty array raises ValueError.
first_crossing_year(sm, t) ==
    LET kept == where_drop(sm, t)
    IN  IF kept = {} THEN [exc |-> "ValueError", year |-> 0]
        ELSE [exc |-> "none", year |-> Min(kept)]

(***************************************************************************)
(* Thresholds.  A threshold is written as an integer literal (1, 2, 3) or  *)
(* as a decimal one (1.5, 2.5, 1.0); str() of it names the result list.    *)
(***************************************************************************)
Threshold(n, isInt) == [tenths |-> n, int |-> isInt]

\* str(temp): the digits before the decimal point and, for a float, the
\* point and the digit after it ("1" and "1.0" are different names).
str(t) == [whole |-> t.tenths \div Tenths, point |-> ~t.int,
           frac |-> IF t.int THEN 0 ELSE t.tenths % Tenths]

\* temps = [1, 1.5, 2, 2.5, 3]
DefaultTemps == <<Threshold(10, TRUE), Threshold(15, FALSE), Threshold(20, TRUE),
                  Threshold(25, FALSE), Threshold(30, TRUE)>>

RollingAveWindow == 20      \* rolling_ave_window = 20
BaselineFirst == 1850       \* year=slice(1850,1899), slice(1850,2100)
BaselineLast == 1899
LastYear == 2100

(***************************************************************************)
(* Inputs of the bounded check.                                            *)
(***************************************************************************)
Levels == {Tenths * k : k \in 0..MaxLevel}
GenYears == [i \in 1..NumYears |-> BaselineLast - 2 + i]

\* Every series of NumYears whole-degree values, and those series with the
\* last year missing (a model that ends a year early, after alignment).
FullSeries == {Series(GenYears, v, 1) : v \in [1..NumYears -> Levels]}
ShortSeries == {Series(GenYears, [v EXCEPT ![NumYears] = NaN], 1) :
                    v \in [1..NumYears -> Levels]}

WindowsFor(n) == {w \in (1..NumYears) \cup {5, RollingAveWindow} : w <= n}

\* Windows the threshold-crossing cell is run with: an even and an odd one,
\* the window of the specification's example and the notebook's own.
CellWindows(n) == {w \in {2, 5, RollingAveWindow} : w <= n}

NoYear == [def |-> FALSE, year |-> 0]
NoSummary == [def |-> FALSE]
NoPlot == [def |-> FALSE]
NoLists == [n \in {} |-> <<>>]

(***************************************************************************)
(* The body of the threshold loop on one series: the two statements that   *)
(* compute `smoothed' and `year_temp_smoothed'.                            *)
(***************************************************************************)
InitFn ==
    /\ annual \in FullSeries \cup ShortSeries
    /\ rolling_ave_window \in WindowsFor(Len(annual.year))
    /\ temp \in Range(DefaultTemps)
    /\ smoothed = Undefined
    /\ year_temp_smoothed = NoYear
    /\ error = "none"
    /\ cell = "start"
    /\ datasets_historical = <<>>
    /\ datasets_ssp = <<>>
    /\ cmip6_models = <<>>
    /\ cmip6_gmtm = Undefined
    /\ cmip6_gmtm_anom = Undefined
    /\ temps = <<temp>>
    /\ firstyear_rolling = NoLists
    /\ all_temps_rolling = Undefined
    /\ cmip6_models_warminglevels_df_rolling = Undefined
    /\ pending = {}
    /\ plotted = NoPlot
    /\ summary = NoSummary

\* smoothed = annual.rolling(year=rolling_ave_window, center=True).mean()
RollingStep ==
    /\ cell = "start"
    /\ \E exc \in rolling_outcomes(Len(annual.year), rolling_ave_window) :
          /\ error' = exc
          /\ smoothed' = IF exc = "none" THEN rolling_mean(annual, rolling_ave_window)
                         ELSE smoothed
    /\ cell' = "rolling"
    /\ UNCHANGED <<datasets_historical, datasets_ssp, cmip6_models, cmip6_gmtm,
                   cmip6_gmtm_anom, rolling_ave_window, temps, temp, annual,
                   year_temp_smoothed, firstyear_rolling, summary>>
    /\ UNCHANGED <<all_temps_rolling, cmip6_models_warminglevels_df_rolling, pending, plotted>>

\* year_temp_smoothed = (smoothed.year.where(smoothed >= temp, drop=True)).year.min().item()
CrossingStep ==
    /\ cell = "rolling"
    /\ error = "none"
    /\ LET r == first_crossing_year(smoothed, temp)
       IN  /\ error' = r.exc
           /\ year_temp_smoothed' =
                 IF r.exc = "none" THEN [def |-> TRUE, year |-> r.year]
                 ELSE year_temp_smoothed
    /\ cell' = "crossing"
    /\ UNCHANGED <<datasets_historical, datasets_ssp, cmip6_models, cmip6_gmtm,
                   cmip6_gmtm_anom, rolling_ave_window, temps, temp, annual,
                   smoothed, firstyear_rolling, summary>>
    /\ UNCHANGED <<all_temps_rolling, cmip6_models_warminglevels_df_rolling, pending, plotted>>

NextFn == RollingStep \/ CrossingStep

SpecFn == InitFn /\ [][NextFn]_vars

(***************************************************************************)
(* DataArrays of the notebook.  rows[m] is the series of model m over the  *)
(* shared 'year' coordinate; a one-dimensional array (no 'model'           *)
(* dimension) has hasModel = FALSE and its single series in rows[1].       *)
(***************************************************************************)
Array(hasModel, years, rows) ==
    [def |-> TRUE, hasModel |-> hasModel, year |-> years, rows |-> rows]
Row(nums, d) == [num |-> nums, den |-> d]

RECURSIVE SortedSeq(_)
SortedSeq(S) == IF S = {} THEN <<>> ELSE <<Min(S)>> \o SortedSeq(S \ {Min(S)})

\* Align a series to another 'year' index, filling the new years with nan.
Reindex(years, row, newYears) ==
    Row([i \in 1..Len(newYears) |->
            IF \E j \in DOMAIN years : years[j] = newYears[i]
            THEN row.num[CHOOSE j \in DOMAIN years : years[j] = newYears[i]]
            ELSE NaN],
        row.den)

\* xr.concat((a, g), dim='model'): g becomes a new row; the 'year' indexes
\* are outer-joined.
concat_model(a, g) ==
    LET ys == SortedSeq(Range(a.year) \cup Range(g.year))
    IN  Array(TRUE, ys,
              [m \in 1..Len(a.rows) |-> Reindex(a.year, a.rows[m], ys)]
                  \o <<Reindex(g.year, g.rows[1], ys)>>)

\* Mutant: the first array always starts a 'model' dimension of its own.
first_array_stacked(g) == Array(TRUE, g.year, g.rows)

\* cmip6_gmtm = gmt2m
first_array(g) == g

\* The global-mean annual series of a historical/ssp pair.  The unit
\* conversion, annual means, concatenation along 'year' and area weighting
\* reduce gridded fields of the catalog; the model carries the reduced series
\* with the ssp dataset.
gmt2m(h, s) == Array(FALSE, s.gmt.year, <<Row(s.gmt.num, s.gmt.den)>>)

(***************************************************************************)
(* The model-loading loop, pair p of the nested enumeration (hii outer,    *)
(* sii inner, both counted from 0 as in the notebook).                     *)
(***************************************************************************)
RECURSIVE LoadLoop(_, _)
LoadLoop(p, st) ==
    LET S == Len(datasets_ssp)
    IN  IF p > Len(datasets_historical) * S THEN st
        ELSE LET hii == (p - 1) \div S
                 sii == (p - 1) % S
                 h == datasets_historical[hii + 1]
                 s == datasets_ssp[sii + 1]
                 names == Append(st.models, s.source_id)
             IN  IF s.source_id # h.source_id THEN LoadLoop(p + 1, st)
                 ELSE IF hii = 0
                      THEN LoadLoop(p + 1, [st EXCEPT !.models = names,
                                                      !.gmtm = first_array(gmt2m(h, s))])
                 ELSE IF ~st.gmtm.def
                      THEN [st EXCEPT !.models = names, !.exc = "NameError"]
                 ELSE LoadLoop(p + 1, [st EXCEPT !.models = names,
                                                 !.gmtm = concat_model(st.gmtm, gmt2m(h, s))])

\* The loading cell: cmip6_models = [] and the loop.
LoadModels ==
    /\ \E st \in {LoadLoop(1, [models |-> <<>>, gmtm |-> cmip6_gmtm, exc |-> "none"])} :
           /\ cmip6_models' = st.models
           /\ cmip6_gmtm' = st.gmtm
           /\ error' = st.exc
    /\ cell' = "load"
    /\ UNCHANGED <<datasets_historical, datasets_ssp, cmip6_gmtm_anom,
                   rolling_ave_window, temps, temp, annual, smoothed,
                   year_temp_smoothed, firstyear_rolling, summary>>
    /\ UNCHANGED <<all_temps_rolling, cmip6_models_warminglevels_df_rolling, pending, plotted>>

(***************************************************************************)
(* The anomaly cell.                                                       *)
(***************************************************************************)
\* row - row.sel(year=slice(1850,1899)).mean(dim='year'): the mean skips
\* missing values; with no baseline value it is nan and so is the row.
subtract_baseline(years, row) ==
    LET base == {i \in DOMAIN years : /\ years[i] >= BaselineFirst
                                      /\ years[i] <= BaselineLast
                                      /\ ~IsNaN(row.num[i])}
        cnt == Cardinality(base)
        total == SumRange([i \in DOMAIN years |-> IF i \in base THEN row.num[i] ELSE 0],
                          1, Len(years))
    IN  IF cnt = 0 THEN Row([i \in DOMAIN years |-> NaN], row.den)
        ELSE Row([i \in DOMAIN years |->
                     IF IsNaN(row.num[i]) THEN NaN ELSE row.num[i] * cnt - total],
                 row.den * cnt)

\* .sel(year=slice(lo, hi))
sel_years(a, lo, hi) ==
    LET keep == SortedSeq({i \in DOMAIN a.year : a.year[i] >= lo /\ a.year[i] <= hi})
    IN  Array(a.hasModel, [k \in DOMAIN keep |-> a.year[keep[k]]],
              [m \in DOMAIN a.rows |->
                  Row([k \in DOMAIN keep |-> a.rows[m].num[keep[k]]], a.rows[m].den)])

\* .squeeze(): a 'model' dimension of size 1 is removed.
squeeze(a) == IF a.hasModel /\ Len(a.rows) = 1 THEN [a EXCEPT !.hasModel = FALSE] ELSE a

ComputeAnomalies ==
    /\ cell # "start"
    /\ IF ~cmip6_gmtm.def
       THEN error' = "NameError" /\ UNCHANGED cmip6_gmtm_anom
       ELSE /\ error' = "none"
            /\ cmip6_gmtm_anom' =
                  squeeze(sel_years(
                      Array(cmip6_gmtm.hasModel, cmip6_gmtm.year,
                            [m \in DOMAIN cmip6_gmtm.rows |->
                                subtract_baseline(cmip6_gmtm.year, cmip6_gmtm.rows[m])]),
                      BaselineFirst, LastYear))
    /\ cell' = "anomalies"
    /\ UNCHANGED <<datasets_historical, datasets_ssp, cmip6_models, cmip6_gmtm,
                   rolling_ave_window, temps, temp, annual, smoothed,
                   year_temp_smoothed, firstyear_rolling, summary>>
    /\ UNCHANGED <<all_temps_rolling, cmip6_models_warminglevels_df_rolling, pending, plotted>>

(***************************************************************************)
(* The threshold-crossing cell.                                            *)
(***************************************************************************)
\* cmip6_gmtm_anom.sel(model=mi), mi counted from 1 here.
sel_model(a, mi) ==
    IF ~a.hasModel THEN [exc |-> "KeyError", value |-> Undefined]
    ELSE IF mi > Len(a.rows) THEN [exc |-> "KeyError", value |-> Undefined]
    ELSE [exc |-> "none", value |-> Series(a.year, a.rows[mi].num, a.rows[mi].den)]

\* One iteration of the inner loop on the ensemble a, for model mi, threshold
\* t and window W.  env holds the globals the loop assigns; an exception
\* leaves the assignments made before it.
LoopBodyOn(a, mi, t, W, env) ==
    LET got == sel_model(a, mi)
        sm == rolling_mean(got.value, W)
        r == first_crossing_year(sm, t)
    IN  IF got.exc # "none" THEN [env EXCEPT !.exc = got.exc]
        ELSE IF r.exc # "none"
             THEN [env EXCEPT !.annual = got.value, !.smoothed = sm, !.exc = r.exc]
        ELSE [env EXCEPT !.annual = got.value, !.smoothed = sm,
                         !.yts = [def |-> TRUE, year |-> r.year],
                         !.lists = [@ EXCEPT ![str(t)] = Append(@, r.year)]]

LoopBody(mi, t, W, env) == LoopBodyOn(cmip6_gmtm_anom, mi, t, W, env)

\* The inner loop over the names from model mi on; it stops at the first
\* exception.
RECURSIVE ModelLoopOn(_, _, _, _, _, _)
ModelLoopOn(a, names, mi, t, W, env) ==
    IF mi > Len(names) \/ env.exc # "none" THEN env
    ELSE ModelLoopOn(a, names, mi + 1, t, W, LoopBodyOn(a, mi, t, W, env))

ModelLoop(mi, t, W, env) == ModelLoopOn(cmip6_gmtm_anom, cmip6_models, mi, t, W, env)

\* Mutant: the list of a threshold is created once and kept afterwards.
reset_list_keep(lists, t) ==
    IF str(t) \in DOMAIN lists THEN lists ELSE (str(t) :> <<>>) @@ lists

\* vars()['firstyear_rolling_' + str(temp) + 'C'] = []
reset_list(lists, t) == (str(t) :> <<>>) @@ lists

\* The outer loop from threshold ti on: the list of the threshold is reset,
\* then filled model by model.
RECURSIVE TempLoopOn(_, _, _, _, _, _)
TempLoopOn(a, names, ti, tl, W, env) ==
    IF ti > Len(tl) \/ env.exc # "none" THEN env
    ELSE TempLoopOn(a, names, ti + 1, tl, W,
             ModelLoopOn(a, names, 1, tl[ti], W,
                 [env EXCEPT !.temp = tl[ti],
                             !.lists = reset_list(env.lists, tl[ti])]))

TempLoop(ti, tl, W, env) == TempLoopOn(cmip6_gmtm_anom, cmip6_models, ti, tl, W, env)

\* The thresholds and windows the cell is run with: the notebook's own
\* (temps = [1, 1.5, 2, 2.5, 3], window 20 where the series allow it) and
\* edits of these two lines: the same thresholds listed in descending order
\* and the single threshold 1.0.
DescendingTemps == [i \in DOMAIN DefaultTemps |-> DefaultTemps[Len(DefaultTemps) + 1 - i]]
TempsChoices == {DefaultTemps, DescendingTemps, <<Threshold(10, FALSE)>>}

RunThresholds ==
    /\ cell # "start"
    /\ cmip6_gmtm_anom.def
    /\ \E W \in CellWindows(Len(cmip6_gmtm_anom.year)), tl \in TempsChoices :
          \E env \in {TempLoop(1, tl, W,
                          [lists |-> firstyear_rolling, temp |-> temp, annual |-> annual,
                           smoothed |-> smoothed, yts |-> year_temp_smoothed,
                           exc |-> "none"])} :
              /\ rolling_ave_window' = W
              /\ temps' = tl
              /\ firstyear_rolling' = env.lists
              /\ temp' = env.temp
              /\ annual' = env.annual
              /\ smoothed' = env.smoothed
              /\ year_temp_smoothed' = env.yts
              /\ error' = env.exc
    /\ cell' = "thresholds"
    /\ UNCHANGED <<datasets_historical, datasets_ssp, cmip6_models, cmip6_gmtm, summary>>
    /\ UNCHANGED <<all_temps_rolling, cmip6_models_warminglevels_df_rolling, pending, plotted>>

\* Mutant: the rolling mean is written back into the array it was taken from.
ThresholdCrossingInPlace ==
    /\ RunThresholds
    /\ cmip6_gmtm_anom' =
          IF smoothed'.def /\ cmip6_gmtm_anom.hasModel
          THEN [cmip6_gmtm_anom EXCEPT
                   !.rows[Len(cmip6_gmtm_anom.rows)] = Row(smoothed'.num, smoothed'.den)]
          ELSE cmip6_gmtm_anom

\* annual, smoothed and the lists are new objects: sel, rolling(...).mean()
\* and where(...) return new arrays and leave cmip6_gmtm_anom as it was.
ThresholdCrossing ==
    /\ RunThresholds
    /\ UNCHANGED cmip6_gmtm_anom

(***************************************************************************)
(* The summary cell: temp = 2, then the median and the 5th and 95th        *)
(* percentile of the list of that threshold.  Printed values are exact:    *)
(* the median as twice its value, a quantile as twenty times its value.    *)
(***************************************************************************)
Remove(s, i) == [k \in 1..(Len(s) - 1) |-> IF k < i THEN s[k] ELSE s[k + 1]]

RECURSIVE SortedList(_)
SortedList(s) ==
    IF s = <<>> THEN <<>>
    ELSE LET i == CHOOSE k \in DOMAIN s : \A j \in DOMAIN s : s[k] <= s[j]
         IN  <<s[i]>> \o SortedList(Remove(s, i))

\* np.median(a), times 2.
median2(list) ==
    LET a == SortedList(list)
        n == Len(a)
    IN  IF n % 2 = 1 THEN 2 * a[(n + 1) \div 2] ELSE a[n \div 2] + a[n \div 2 + 1]

\* np.quantile(a, p/20), times 20: linear interpolation at index (n-1)*p/20.
quantile20(list, p) ==
    LET a == SortedList(list)
        at == (Len(a) - 1) * p
        k == at \div 20
        g == at % 20
    IN  IF g = 0 THEN 20 * a[k + 1]
        ELSE 20 * a[k + 1] + g * (a[k + 2] - a[k + 1])

Summarised(list) ==
    [def |-> TRUE, count |-> Len(list), median |-> median2(list),
     q05 |-> quantile20(list, 1), q95 |-> quantile20(list, 19)]

\* Of an empty list the median is nan; the quantile is nan or raises
\* IndexError, depending on the numpy release.
EmptySummary == [def |-> TRUE, count |-> 0, median |-> NaN, q05 |-> NaN, q95 |-> NaN]

SummaryCell ==
    /\ cell # "start"
    /\ temps # <<>>
    /\ temp' = Threshold(20, TRUE)
    /\ IF str(temp') \notin DOMAIN firstyear_rolling
       THEN error' = "KeyError" /\ UNCHANGED summary
       ELSE IF firstyear_rolling[str(temp')] = <<>>
            THEN summary' = EmptySummary /\ error' \in {"none", "IndexError"}
       ELSE summary' = Summarised(firstyear_rolling[str(temp')]) /\ error' = "none"
    /\ cell' = "summary"
    /\ UNCHANGED <<datasets_historical, datasets_ssp, cmip6_models, cmip6_gmtm,
                   cmip6_gmtm_anom, rolling_ave_window, temps, annual, smoothed,
                   year_temp_smoothed, firstyear_rolling>>
    /\ UNCHANGED <<all_temps_rolling, cmip6_models_warminglevels_df_rolling, pending, plotted>>

(***************************************************************************)
(* The export cell: the five lists named by str(1), str(1.5), str(2),      *)
(* str(2.5), str(3) are stacked and transposed, framed with the model      *)
(* names as index and `temps' as column labels, sorted by index and saved. *)
(***************************************************************************)
\* Model names (source_id), in alphabetical order.
IdName == <<"A", "B", "C", "D">>
Ids == {IdName[i] : i \in 1..MaxModels}
NameRank(id) == CHOOSE i \in DOMAIN IdName : IdName[i] = id

\* The literals of the np.vstack call.
ExportKeys == <<Threshold(10, TRUE), Threshold(15, FALSE), Threshold(20, TRUE),
                Threshold(25, FALSE), Threshold(30, TRUE)>>

\* np.vstack((...)) needs arrays of one length.
vstack_fits(lists) ==
    \A j \in DOMAIN ExportKeys :
        Len(lists[str(ExportKeys[j])]) = Len(lists[str(ExportKeys[1])])

\* np.vstack((...)).T: row m holds entry m of every list.
vstack_T(lists) ==
    [def |-> TRUE,
     data |-> [m \in 1..Len(lists[str(ExportKeys[1])]) |->
                  [j \in DOMAIN ExportKeys |-> lists[str(ExportKeys[j])][m]]]]

\* pd.DataFrame(data=..., index=..., columns=...)
DataFrame(data, index, columns) ==
    [def |-> TRUE, index |-> index, columns |-> columns, data |-> data]

\* The shape of the data must be (len(index), len(columns)).
frame_fits(data, index, columns) ==
    /\ Len(data) = Len(index)
    /\ Len(columns) = Len(ExportKeys)

\* .sort_index(): the rows, each with its index label, in ascending order of
\* the label; rows of equal label in any order (the default sort is not stable).
Perms(n) == {q \in [1..n -> 1..n] : \A i, j \in 1..n : i # j => q[i] # q[j]}
sort_index(f) ==
    LET n == Len(f.index)
        sorting == {q \in Perms(n) : \A i \in 1..(n - 1) :
                       NameRank(f.index[q[i]]) <= NameRank(f.index[q[i + 1]])}
    IN  {[f EXCEPT !.index = [i \in 1..n |-> f.index[q[i]]],
                   !.data = [i \in 1..n |-> f.data[q[i]]]] : q \in sorting}

ExportCell ==
    /\ cell # "start"
    /\ IF \E j \in DOMAIN ExportKeys : str(ExportKeys[j]) \notin DOMAIN firstyear_rolling
       THEN /\ error' = "KeyError"
            /\ UNCHANGED <<all_temps_rolling, cmip6_models_warminglevels_df_rolling>>
       ELSE IF ~vstack_fits(firstyear_rolling)
       THEN /\ error' = "ValueError"
            /\ UNCHANGED <<all_temps_rolling, cmip6_models_warminglevels_df_rolling>>
       ELSE /\ all_temps_rolling' = vstack_T(firstyear_rolling)
            /\ IF ~frame_fits(all_temps_rolling'.data, cmip6_models, temps)
               THEN /\ error' = "ValueError"
                    /\ UNCHANGED cmip6_models_warminglevels_df_rolling
               ELSE /\ error' = "none"
                    /\ cmip6_models_warminglevels_df_rolling' \in
                          sort_index(DataFrame(all_temps_rolling'.data, cmip6_models, temps))
    /\ cell' = "export"
    /\ UNCHANGED <<datasets_historical, datasets_ssp, cmip6_models, cmip6_gmtm,
                   cmip6_gmtm_anom, rolling_ave_window, temps, temp, annual, smoothed,
                   year_temp_smoothed, firstyear_rolling, summary, pending, plotted>>

(***************************************************************************)
(* The notebook from a fresh kernel, after the catalog cell has opened the *)
(* datasets.  The cells are first run in notebook order (a cell reads only *)
(* names that a cell above it has assigned); afterwards any cell may be    *)
(* run again, in any order.                                                *)
(***************************************************************************)
SeqsUpTo(S, n) == UNION {[1..k -> S] : k \in 1..n}

\* Catalog series by model, tenths of a degree Celsius: a model warming two
\* degrees a year, the same warming with data that end a year early, and
\* models that do not warm.
RampRaw == Series(GenYears, [i \in 1..NumYears |-> 2 * Tenths * (i - 1)], 1)
EarlyEndRaw == Series(SubSeq(GenYears, 1, NumYears - 1),
                      [i \in 1..(NumYears - 1) |-> 2 * Tenths * (i - 1)], 1)
FlatRaw == Series(GenYears, [i \in 1..NumYears |-> Tenths * MaxLevel], 1)
CatalogSeries(id) ==
    IF id = IdName[1] THEN RampRaw ELSE IF id = IdName[2] THEN EarlyEndRaw ELSE FlatRaw

Init ==
    /\ datasets_historical \in SeqsUpTo({[source_id |-> id] : id \in Ids}, MaxModels)
    /\ datasets_ssp \in
          SeqsUpTo({[source_id |-> id, gmt |-> CatalogSeries(id)] : id \in Ids}, MaxModels)
    /\ cmip6_models = <<>>
    /\ cmip6_gmtm = Undefined
    /\ cmip6_gmtm_anom = Undefined
    /\ rolling_ave_window = 0
    /\ temps = <<>>
    /\ temp = Threshold(0, TRUE)
    /\ annual = Undefined
    /\ smoothed = Undefined
    /\ year_temp_smoothed = NoYear
    /\ firstyear_rolling = NoLists
    /\ all_temps_rolling = Undefined
    /\ cmip6_models_warminglevels_df_rolling = Undefined
    /\ pending = {}
    /\ plotted = NoPlot
    /\ summary = NoSummary
    /\ error = "none"
    /\ cell = "start"

Next == LoadModels \/ ComputeAnomalies \/ ThresholdCrossing \/ ExportCell \/ SummaryCell

Spec == Init /\ [][Next]_vars

(***************************************************************************)
(* The catalog cell and the loading cell alone.  A key of the dataset      *)
(* dictionaries names institution, model, experiment, table and grid, so   *)
(* one model can have more than one dataset (a second grid); the cell can  *)
(* be run again after the query has been edited, the names of the kernel   *)
(* staying as they are.                                                    *)
(***************************************************************************)
HistoricalDatasets == {[source_id |-> id] : id \in Ids}
SspDatasets ==
    {[source_id |-> id, gmt |-> CatalogSeries(id)] : id \in Ids}
        \cup {[source_id |-> IdName[1], gmt |-> FlatRaw]}

\* Dictionaries of up to MaxModels datasets, no dataset twice.
DictsOf(S) == {d \in SeqsUpTo(S, MaxModels) : \A i, j \in DOMAIN d : d[i] = d[j] => i = j}

\* datasets_historical = ...to_dataset_dict(...); datasets_ssp = ...
OpenCatalog ==
    /\ datasets_historical' \in DictsOf(HistoricalDatasets)
    /\ datasets_ssp' \in DictsOf(SspDatasets)
    /\ cell' = "start"
    /\ error' = "none"
    /\ UNCHANGED <<cmip6_models, cmip6_gmtm, cmip6_gmtm_anom, rolling_ave_window,
                   temps, temp, annual, smoothed, year_temp_smoothed,
                   firstyear_rolling, summary>>
    /\ UNCHANGED <<all_temps_rolling, cmip6_models_warminglevels_df_rolling, pending, plotted>>

InitLoad ==
    /\ datasets_historical \in DictsOf(HistoricalDatasets)
    /\ datasets_ssp \in DictsOf(SspDatasets)
    /\ cmip6_models = <<>>
    /\ cmip6_gmtm = Undefined
    /\ cmip6_gmtm_anom = Undefined
    /\ rolling_ave_window = 0
    /\ temps = <<>>
    /\ temp = Threshold(0, TRUE)
    /\ annual = Undefined
    /\ smoothed = Undefined
    /\ year_temp_smoothed = NoYear
    /\ firstyear_rolling = NoLists
    /\ all_temps_rolling = Undefined
    /\ cmip6_models_warminglevels_df_rolling = Undefined
    /\ pending = {}
    /\ plotted = NoPlot
    /\ summary = NoSummary
    /\ error = "none"
    /\ cell = "start"

\* The loading cell, run while the collection stays within MaxRows series (a
\* run whose first match is not at hii = 0 adds to the collection of the run
\* before it, without end).
MaxRows == MaxModels + 1
Reload ==
    /\ LoadModels
    /\ cmip6_gmtm'.def => Len(cmip6_gmtm'.rows) <= MaxRows

NextLoad == OpenCatalog \/ Reload

SpecLoad == InitLoad /\ [][NextLoad]_vars

(***************************************************************************)
(* analyze(ensemble, thresholds, window): the threshold-crossing cell and  *)
(* the summary on a given ensemble of anomaly series, held in the names    *)
(* the loading and anomaly cells leave it in.                              *)
(***************************************************************************)
\* Anomaly series of the generated ensembles, tenths of a degree: a model
\* warming two degrees a year and a model level at 1.5 degrees; the loop run
\* as tasks also takes a model that is warm in its first two years only.
SteepAnom == Series(GenYears, [i \in 1..NumYears |-> 2 * Tenths * (i - 1)], 1)
MidAnom == Series(GenYears, [i \in 1..NumYears |-> 15], 1)
HumpAnom == Series(GenYears, [i \in 1..NumYears |-> IF i <= 2 THEN Tenths * MaxLevel ELSE 0], 1)
AnomalyPool == {SteepAnom, MidAnom}
TaskPool == AnomalyPool \cup {HumpAnom}

\* The names of an ensemble of n models: alphabetical, or the reverse (the
\* catalog lists the datasets in no particular order).
EnsembleNames(n) ==
    {[m \in 1..n |-> IdName[m]], [m \in 1..n |-> IdName[n + 1 - m]]}

\* Model A: 2000..2020 rising linearly from 0.0 to 2.0; model B: 0.5 throughout.
FixtureYears == [i \in 1..21 |-> 1999 + i]
FixtureA == Series(FixtureYears, [i \in 1..21 |-> i - 1], 1)
FixtureB == Series(FixtureYears, [i \in 1..21 |-> 5], 1)
Fixture == <<FixtureA, FixtureB>>

\* The array of an ensemble: one series stays one-dimensional, more are
\* stacked along 'model'.
EnsembleArray(ens) ==
    Array(Len(ens) > 1, ens[1].year, [m \in DOMAIN ens |-> Row(ens[m].num, ens[m].den)])

InitAnalyze ==
    /\ \E ens \in SeqsUpTo(AnomalyPool, MaxModels) \cup {Fixture} :
          /\ cmip6_models \in EnsembleNames(Len(ens))
          /\ cmip6_gmtm_anom = EnsembleArray(ens)
    /\ datasets_historical = <<>>
    /\ datasets_ssp = <<>>
    /\ cmip6_gmtm = Undefined
    /\ rolling_ave_window = 0
    /\ temps = <<>>
    /\ temp = Threshold(0, TRUE)
    /\ annual = Undefined
    /\ smoothed = Undefined
    /\ year_temp_smoothed = NoYear
    /\ firstyear_rolling = NoLists
    /\ all_temps_rolling = Undefined
    /\ cmip6_models_warminglevels_df_rolling = Undefined
    /\ pending = {}
    /\ plotted = NoPlot
    /\ summary = NoSummary
    /\ error = "none"
    /\ cell = "anomalies"

NextAnalyze == ThresholdCrossing \/ ExportCell \/ SummaryCell

SpecAnalyze == InitAnalyze /\ [][NextAnalyze]_vars

(***************************************************************************)
(* The cells that draw the results: the distribution of the crossing years *)
(* and the line graph with a dot per model and threshold.  Both read the   *)
(* global temp; the distribution cell does not assign it.                  *)
(***************************************************************************)
\* sns.kdeplot(np.array(vars()['firstyear_rolling_' + str(temp) + 'C']), ...)
\* and the title 'Timing of Reaching ' + str(temp).
DistributionCell ==
    /\ cell # "start"
    /\ temps # <<>>
    /\ IF str(temp) \notin DOMAIN firstyear_rolling
       THEN error' = "KeyError" /\ UNCHANGED plotted
       ELSE /\ error' = "none"
            /\ plotted' = [def |-> TRUE, temp |-> temp,
                           data |-> firstyear_rolling[str(temp)]]
    /\ cell' = "distribution"
    /\ UNCHANGED <<datasets_historical, datasets_ssp, cmip6_models, cmip6_gmtm,
                   cmip6_gmtm_anom, rolling_ave_window, temps, temp, annual, smoothed,
                   year_temp_smoothed, firstyear_rolling, summary, all_temps_rolling,
                   cmip6_models_warminglevels_df_rolling, pending>>

\* The scatter loop from dot (ti, mi) on: plt.scatter(list[mi], temp).  It
\* stops at a list that is missing or too short, temp staying at its threshold.
RECURSIVE ScatterLoop(_, _, _)
ScatterLoop(ti, mi, st) ==
    IF ti > Len(temps) THEN st
    ELSE IF mi > Len(cmip6_models) THEN ScatterLoop(ti + 1, 1, st)
    ELSE IF str(temps[ti]) \notin DOMAIN firstyear_rolling
         THEN [temp |-> temps[ti], exc |-> "KeyError"]
    ELSE IF mi > Len(firstyear_rolling[str(temps[ti])])
         THEN [temp |-> temps[ti], exc |-> "IndexError"]
    ELSE ScatterLoop(ti, mi + 1, [temp |-> temps[ti], exc |-> "none"])

\* The line-graph cell: the spread over 'model' of the rolling means, then
\* `for ti, temp in enumerate(temps)` over the dots.
LineGraphCell ==
    /\ cell # "start"
    /\ temps # <<>>
    /\ IF ~cmip6_gmtm_anom.hasModel
       THEN error' = "ValueError" /\ UNCHANGED temp
       ELSE \E st \in {ScatterLoop(1, 1, [temp |-> temp, exc |-> "none"])} :
               temp' = st.temp /\ error' = st.exc
    /\ cell' = "linegraph"
    /\ UNCHANGED <<datasets_historical, datasets_ssp, cmip6_models, cmip6_gmtm,
                   cmip6_gmtm_anom, rolling_ave_window, temps, annual, smoothed,
                   year_temp_smoothed, firstyear_rolling, summary, all_temps_rolling,
                   cmip6_models_warminglevels_df_rolling, pending, plotted>>

NextPlots == ThresholdCrossing \/ SummaryCell \/ DistributionCell \/ LineGraphCell

SpecPlots == InitAnalyze /\ [][NextPlots]_vars

(***************************************************************************)
(* The loop body on inputs the notebook does not guard against: a series   *)
(* with a year missing from its index (a dataset that lacks a year; the    *)
(* annual means are grouped by year, so the index is increasing and free   *)
(* of duplicates, but nothing makes it contiguous), and a window wider     *)
(* than the series.                                                        *)
(***************************************************************************)
GapYears == [i \in 1..NumYears |-> IF i = NumYears THEN GenYears[i] + 1 ELSE GenYears[i]]
EdgeSeries ==
    {Series(y, v, 1) : y \in {GenYears, GapYears},
                       v \in [1..NumYears -> {0, Tenths * MaxLevel}]}
EdgeWindows == (1..(NumYears + 2)) \cup {RollingAveWindow}

InitEdge ==
    /\ annual \in EdgeSeries
    /\ rolling_ave_window \in EdgeWindows
    /\ temp \in Range(DefaultTemps)
    /\ smoothed = Undefined
    /\ year_temp_smoothed = NoYear
    /\ error = "none"
    /\ cell = "start"
    /\ datasets_historical = <<>>
    /\ datasets_ssp = <<>>
    /\ cmip6_models = <<>>
    /\ cmip6_gmtm = Undefined
    /\ cmip6_gmtm_anom = Undefined
    /\ temps = <<temp>>
    /\ firstyear_rolling = NoLists
    /\ all_temps_rolling = Undefined
    /\ cmip6_models_warminglevels_df_rolling = Undefined
    /\ summary = NoSummary
    /\ pending = {}
    /\ plotted = NoPlot

SpecEdge == InitEdge /\ [][NextFn]_vars

(***************************************************************************)
(* The iterations of the threshold loop as tasks.  The notebook runs them  *)
(* in the order of cmip6_models; the design lets the iterations of one     *)
(* threshold run in any order.  A task is the loop body as written: it     *)
(* assigns the shared names annual, smoothed and year_temp_smoothed and    *)
(* appends to the list of the threshold.                                   *)
(***************************************************************************)
InitTasks ==
    /\ \E ens \in SeqsUpTo(TaskPool, MaxModels) :
          /\ cmip6_models \in EnsembleNames(Len(ens))
          /\ cmip6_gmtm_anom = EnsembleArray(ens)
    /\ rolling_ave_window \in CellWindows(NumYears)
    /\ temps \in TempsChoices
    /\ temp = temps[1]
    /\ firstyear_rolling = reset_list(NoLists, temps[1])
    /\ pending = DOMAIN cmip6_models
    /\ plotted = NoPlot
    /\ datasets_historical = <<>>
    /\ datasets_ssp = <<>>
    /\ cmip6_gmtm = Undefined
    /\ annual = Undefined
    /\ smoothed = Undefined
    /\ year_temp_smoothed = NoYear
    /\ all_temps_rolling = Undefined
    /\ cmip6_models_warminglevels_df_rolling = Undefined
    /\ summary = NoSummary
    /\ error = "none"
    /\ cell = "loop"

\* Lines 744-753 for model mi and the current threshold.
RunTask(mi) ==
    /\ cell = "loop" /\ error = "none"
    /\ mi \in pending
    /\ \E env \in {LoopBody(mi, temp, rolling_ave_window,
                          [lists |-> firstyear_rolling, temp |-> temp, annual |-> annual,
                           smoothed |-> smoothed, yts |-> year_temp_smoothed,
                           exc |-> "none"])} :
          /\ firstyear_rolling' = env.lists
          /\ annual' = env.annual
          /\ smoothed' = env.smoothed
          /\ year_temp_smoothed' = env.yts
          /\ error' = env.exc
    /\ pending' = pending \ {mi}
    /\ UNCHANGED <<datasets_historical, datasets_ssp, cmip6_models, cmip6_gmtm,
                   cmip6_gmtm_anom, rolling_ave_window, temps, temp, all_temps_rolling,
                   cmip6_models_warminglevels_df_rolling, summary, plotted, cell>>

\* Lines 734-739 for the next threshold, once every model has been run.
TempIndex == CHOOSE i \in DOMAIN temps : temps[i] = temp
NextThreshold ==
    /\ cell = "loop" /\ error = "none"
    /\ pending = {}
    /\ plotted = NoPlot
    /\ TempIndex < Len(temps)
    /\ temp' = temps[TempIndex + 1]
    /\ firstyear_rolling' = reset_list(firstyear_rolling, temp')
    /\ pending' = DOMAIN cmip6_models
    /\ UNCHANGED <<datasets_historical, datasets_ssp, cmip6_models, cmip6_gmtm,
                   cmip6_gmtm_anom, rolling_ave_window, temps, annual, smoothed,
                   year_temp_smoothed, all_temps_rolling,
                   cmip6_models_warminglevels_df_rolling, summary, plotted, error, cell>>

NextTasks == (\E mi \in DOMAIN cmip6_models : RunTask(mi)) \/ NextThreshold

SpecTasks == InitTasks /\ [][NextTasks]_vars

(***************************************************************************)
(* Properties of the loop body (checked under SpecFn).                     *)
(***************************************************************************)
N == Len(annual.year)
Positions == 1..N
Crossed == cell = "crossing" /\ error = "none"

\* The rolling mean at position i is a value, and it is at or above temp.
MeanDefined(i) == ~IsNaN(smoothed.num[i])
MeanReaches(i) == MeanDefined(i) /\ smoothed.num[i] >= temp.tenths * smoothed.den
Reaching == {i \in Positions : MeanReaches(i)}
PosOfYear(y) == CHOOSE i \in Positions : annual.year[i] = y

\* The centred window of position i, in the notebook's library and as the
\* specification words it for an even window.
WinFirst(i, W) == i - (W \div 2)
WinLast(i, W) == i - (W \div 2) + W - 1
WinInside(i, W) == WinFirst(i, W) >= 1 /\ WinLast(i, W) <= N
WinHasNaN(i, W) == \E k \in WinFirst(i, W)..WinLast(i, W) : IsNaN(annual.num[k])
SpecWinFirst(i, W) == i - (W \div 2) + 1
SpecWinLast(i, W) == i + (W \div 2)

\* C1: the year returned is the smallest year whose centred rolling mean is
\* defined and at or above the threshold; such a year is returned whenever
\* one exists.
C1_SmallestReachingYear ==
    cell = "crossing" =>
        /\ (Reaching # {}) => error = "none"
        /\ error = "none" =>
              /\ year_temp_smoothed.def
              /\ \E i \in Reaching : smoothed.year[i] = year_temp_smoothed.year
              /\ \A j \in Reaching : smoothed.year[j] >= year_temp_smoothed.year

\* The crossing is found after at least one year with a defined mean below
\* the threshold.
C1_Witness ==
    /\ Crossed
    /\ \E j \in Positions : /\ MeanDefined(j) /\ ~MeanReaches(j)
                            /\ smoothed.year[j] < year_temp_smoothed.year

\* C2: when no year has a defined rolling mean at or above the threshold the
\* computation ends without an exception (with an explicit "unreached").
C2_UnreachedIsNoException ==
    (cell = "crossing" /\ Reaching = {}) => error = "none"

\* C3 (as claimed): for an even window every defined rolling mean is the mean
\* of the values at positions i-W/2+1 .. i+W/2.
C3_EvenWindowAsClaimed ==
    (cell # "start" /\ rolling_ave_window % 2 = 0 /\ NaN \notin Range(annual.num)) =>
        \A i \in Positions : MeanDefined(i) =>
            /\ SpecWinFirst(i, rolling_ave_window) >= 1
            /\ SpecWinLast(i, rolling_ave_window) <= N
            /\ smoothed.num[i] = SumRange(annual.num, SpecWinFirst(i, rolling_ave_window),
                                          SpecWinLast(i, rolling_ave_window))

\* C3 (amended): for an even window the rolling mean at position i is the
\* mean of exactly the values at positions i-W/2 .. i+W/2-1 (W/2 years before
\* i and W/2-1 years after it): the sum of those values over W.
C3_EvenWindowSpan ==
    (cell # "start" /\ rolling_ave_window % 2 = 0) =>
        /\ smoothed.den = annual.den * rolling_ave_window
        /\ \A i \in Positions :
              /\ MeanDefined(i) => WinInside(i, rolling_ave_window)
              /\ (WinInside(i, rolling_ave_window) /\ ~WinHasNaN(i, rolling_ave_window)) =>
                    smoothed.num[i] = SumRange(annual.num, WinFirst(i, rolling_ave_window),
                                               WinLast(i, rolling_ave_window))

\* An even window inside a series whose two readings of the window differ.
C3_Witness ==
    /\ cell = "rolling" /\ rolling_ave_window % 2 = 0
    /\ \E i \in Positions :
          /\ MeanDefined(i)
          /\ SpecWinLast(i, rolling_ave_window) <= N
          /\ smoothed.num[i] # SumRange(annual.num, SpecWinFirst(i, rolling_ave_window),
                                        SpecWinLast(i, rolling_ave_window))

\* C4 (as claimed): from the crossing year on, every defined rolling mean is
\* at or above the threshold.
C4_PermanentAsClaimed ==
    Crossed =>
        \A i \in Positions :
            (smoothed.year[i] > year_temp_smoothed.year /\ MeanDefined(i)) => MeanReaches(i)

\* C4 (amended): the crossing year is the first year at which the rolling
\* mean is at or above the threshold: the mean reaches it at that year and
\* is below it at every earlier year where it is defined (later means may
\* fall below the threshold again).
C4_FirstAtOrAbove ==
    Crossed =>
        /\ MeanReaches(PosOfYear(year_temp_smoothed.year))
        /\ \A i \in Positions :
              (smoothed.year[i] < year_temp_smoothed.year /\ MeanDefined(i)) =>
                  smoothed.num[i] < temp.tenths * smoothed.den

\* A crossing followed by a later year whose defined mean is below the threshold.
C4_Witness ==
    /\ Crossed
    /\ \E i \in Positions : /\ smoothed.year[i] > year_temp_smoothed.year
                            /\ MeanDefined(i) /\ ~MeanReaches(i)

\* C5 (as claimed): the rolling mean has the length and the years of the
\* series, it is undefined exactly at the years whose window extends before
\* the first or after the last year, and no such year is a crossing year.
C5_UndefinedAsClaimed ==
    cell # "start" =>
        /\ smoothed.year = annual.year /\ Len(smoothed.num) = N
        /\ \A i \in Positions : ~MeanDefined(i) <=> ~WinInside(i, rolling_ave_window)
        /\ Crossed => WinInside(PosOfYear(year_temp_smoothed.year), rolling_ave_window)

\* C5 (amended): the rolling mean has the length and the years of the series;
\* the entry at a year is undefined exactly when the centred window around it
\* extends before the first or after the last year of the series or holds a
\* missing value, and no such year is ever returned as a crossing year.
C5_UndefinedEntries ==
    cell # "start" =>
        /\ smoothed.year = annual.year /\ Len(smoothed.num) = N
        /\ \A i \in Positions :
              ~MeanDefined(i) <=> (~WinInside(i, rolling_ave_window)
                                   \/ WinHasNaN(i, rolling_ave_window))
        /\ Crossed =>
              LET p == PosOfYear(year_temp_smoothed.year)
              IN  WinInside(p, rolling_ave_window) /\ ~WinHasNaN(p, rolling_ave_window)

\* A crossing year was returned for a series in which a year with its window
\* inside the series has no rolling mean, a value being missing in the window.
C5_Witness ==
    /\ Crossed
    /\ \E i \in Positions : /\ WinInside(i, rolling_ave_window)
                            /\ WinHasNaN(i, rolling_ave_window)
                            /\ ~MeanDefined(i)
    /\ \E i \in Positions : ~WinInside(i, rolling_ave_window)

\* C6: for a series equal to the threshold at every year the crossing year is
\* the first year whose centred window lies inside the series, for every
\* window not larger than the series.
ConstantAtThreshold == \A i \in Positions : annual.num[i] = temp.tenths * annual.den

C6_ConstantSeries ==
    (cell = "crossing" /\ ConstantAtThreshold /\ rolling_ave_window <= N) =>
        /\ error = "none"
        /\ year_temp_smoothed.def
        /\ year_temp_smoothed.year =
              Min({annual.year[i] : i \in {k \in Positions : WinInside(k, rolling_ave_window)}})

\* A constant series at the threshold, smoothed with a window wider than one
\* year, so that the first years have no rolling mean.
C6_Witness ==
    /\ Crossed /\ ConstantAtThreshold
    /\ rolling_ave_window > 2
    /\ year_temp_smoothed.year > annual.year[1]

\* C7.  The crossing year of the series under another window.
CrossingWith(W) == first_crossing_year(rolling_mean(annual, W), temp)

StrictlyIncreasing ==
    /\ NaN \notin Range(annual.num)
    /\ \A i \in 1..(N - 1) : annual.num[i] < annual.num[i + 1]
CrossesOnce ==
    /\ annual.num[1] < temp.tenths * annual.den
    /\ annual.num[N] >= temp.tenths * annual.den
\* The yearly increments never grow (a straight or flattening rise).
IncrementsNeverGrow ==
    \A i \in 2..(N - 1) : annual.num[i + 1] - annual.num[i] <= annual.num[i] - annual.num[i - 1]

\* C7 (as claimed): for a strictly increasing series crossing the threshold
\* once, no smaller window with a crossing year gives a later crossing year.
C7_MonotoneAsClaimed ==
    (Crossed /\ StrictlyIncreasing /\ CrossesOnce) =>
        \A W1 \in 1..rolling_ave_window :
            CrossingWith(W1).exc = "none" =>
                year_temp_smoothed.year >= CrossingWith(W1).year

\* C7 (amended): for a strictly increasing series that crosses the threshold
\* once and whose yearly increments never grow, and windows W1 <= W2 of the
\* same parity for which a crossing year exists, the crossing year with W2 is
\* >= the crossing year with W1.
C7_MonotoneSameParity ==
    (Crossed /\ StrictlyIncreasing /\ CrossesOnce /\ IncrementsNeverGrow) =>
        \A W1 \in 1..rolling_ave_window :
            (W1 % 2 = rolling_ave_window % 2 /\ CrossingWith(W1).exc = "none") =>
                year_temp_smoothed.year >= CrossingWith(W1).year

\* A rising series whose crossing year with the wider window is later than
\* with a narrower window of the same parity.
C7_Witness ==
    /\ Crossed /\ StrictlyIncreasing /\ CrossesOnce /\ IncrementsNeverGrow
    /\ \E W1 \in 1..(rolling_ave_window - 1) :
          /\ W1 % 2 = rolling_ave_window % 2
          /\ CrossingWith(W1).exc = "none"
          /\ year_temp_smoothed.year > CrossingWith(W1).year

(***************************************************************************)
(* Properties of the cells (checked under SpecAnalyze and Spec).           *)
(***************************************************************************)
\* The crossing of model m of the ensemble for threshold t with the window
\* the cell was last run with.
RowSeries(m) == Series(cmip6_gmtm_anom.year, cmip6_gmtm_anom.rows[m].num,
                       cmip6_gmtm_anom.rows[m].den)
RowCrossing(m, t) == first_crossing_year(rolling_mean(RowSeries(m), rolling_ave_window), t)
RowReaches(m, t) == RowCrossing(m, t).exc = "none"

\* The crossing years, in model order, of the models from m on that reach t.
RECURSIVE ReachedYearsFrom(_, _)
ReachedYearsFrom(m, t) ==
    IF m > Len(cmip6_gmtm_anom.rows) THEN <<>>
    ELSE (IF RowReaches(m, t) THEN <<RowCrossing(m, t).year>> ELSE <<>>)
             \o ReachedYearsFrom(m + 1, t)

\* C8: on the two-model ensemble of the specification (A rising 0.0 to 2.0
\* over 2000..2020, B at 0.5), thresholds [1.0] and window 5, one run gives
\* 2010 for A and "unreached", not a year, for B.
C8_FixtureResult ==
    (/\ cell = "thresholds"
     /\ cmip6_gmtm_anom = EnsembleArray(Fixture)
     /\ temps = <<Threshold(10, FALSE)>>
     /\ rolling_ave_window = 5) =>
        /\ error = "none"
        /\ Len(firstyear_rolling[str(temps[1])]) = 2
        /\ firstyear_rolling[str(temps[1])][1] = 2010
        /\ firstyear_rolling[str(temps[1])][2] \notin Range(FixtureYears)

\* C9: a run on an ensemble of one or more models, each reaching every
\* threshold, leaves a crossing year for every (model, threshold) pair.
C9_EveryPairHasResult ==
    (/\ cell = "thresholds"
     /\ Len(cmip6_models) >= 1
     /\ Len(cmip6_models) = Len(cmip6_gmtm_anom.rows)
     /\ \A m \in DOMAIN cmip6_gmtm_anom.rows, i \in DOMAIN temps : RowReaches(m, temps[i])) =>
        /\ error = "none"
        /\ \A i \in DOMAIN temps :
              /\ Len(firstyear_rolling[str(temps[i])]) = Len(cmip6_models)
              /\ \A m \in DOMAIN cmip6_models :
                    firstyear_rolling[str(temps[i])][m] = RowCrossing(m, temps[i]).year

\* C10: after a run that included the 2 degree threshold some model reaches,
\* what the summary cell prints is the median and the 5th and 95th percentile
\* of exactly the crossing years of the models that reach that threshold.
C10_SummaryOverReached ==
    (/\ cell = "summary" /\ error = "none"
     /\ cmip6_gmtm_anom.hasModel
     /\ Threshold(20, TRUE) \in Range(temps)
     /\ ReachedYearsFrom(1, Threshold(20, TRUE)) # <<>>) =>
        summary = Summarised(ReachedYearsFrom(1, Threshold(20, TRUE)))

\* The threshold of the summary cell (temp = 2).
SummaryTemp == Threshold(20, TRUE)

\* Every model of the ensemble reaches every threshold of the last run.
AllReach ==
    /\ cmip6_gmtm_anom.hasModel
    /\ Len(cmip6_models) = Len(cmip6_gmtm_anom.rows)
    /\ \A m \in DOMAIN cmip6_gmtm_anom.rows, i \in DOMAIN temps : RowReaches(m, temps[i])

\* C11: when no model of the ensemble reaches the 2 degree threshold of the
\* last run, the summary cell signals an error and computes no median or
\* percentile over the empty list.
C11_EmptySummarySignalled ==
    (/\ cell = "summary"
     /\ cmip6_gmtm_anom.hasModel
     /\ SummaryTemp \in Range(temps)
     /\ ReachedYearsFrom(1, SummaryTemp) = <<>>) =>
        /\ error # "none"
        /\ summary # EmptySummary

\* The threshold-crossing cell run again from the current state, with the
\* window and the thresholds it was last run with.
Rerun ==
    TempLoop(1, temps, rolling_ave_window,
             [lists |-> firstyear_rolling, temp |-> temp, annual |-> annual,
              smoothed |-> smoothed, yts |-> year_temp_smoothed, exc |-> "none"])

\* C12: running the threshold-crossing cell again on the same ensemble,
\* thresholds and window leaves every per-threshold list as the first run
\* left it (same length, same values, nothing appended) and ends the same way.
C12_RerunIdentical ==
    (temps # <<>>) =>
        /\ Rerun.lists = firstyear_rolling
        /\ cell = "thresholds" => Rerun.exc = error

\* A completed run on two models and several thresholds, every list filled.
C12_Witness ==
    /\ cell = "thresholds" /\ error = "none"
    /\ Len(cmip6_models) >= 2 /\ Len(temps) >= 2
    /\ \A i \in DOMAIN temps : Len(firstyear_rolling[str(temps[i])]) = Len(cmip6_models)
    /\ \E i, j \in DOMAIN temps :
          firstyear_rolling[str(temps[i])] # firstyear_rolling[str(temps[j])]

\* The model a row of the exported table belongs to.
RowModels(i) ==
    {m \in DOMAIN cmip6_models :
        cmip6_models[m] = cmip6_models_warminglevels_df_rolling.index[i]}

\* C13: after any sequence of runs, what is summarised and exported are the
\* results of the most recent run only: the summary is over the 2 degree
\* results of that run, and every exported row holds the crossing years of
\* its model under the window of that run.
C13_OnlyLatestRun ==
    (error = "none" /\ AllReach) =>
        /\ cell = "summary" =>
              /\ SummaryTemp \in Range(temps)
              /\ summary = Summarised(ReachedYearsFrom(1, SummaryTemp))
        /\ cell = "export" =>
              \A i \in DOMAIN cmip6_models_warminglevels_df_rolling.index :
                  \E m \in RowModels(i) : \A j \in DOMAIN ExportKeys :
                      cmip6_models_warminglevels_df_rolling.data[i][j] =
                          RowCrossing(m, ExportKeys[j]).year

\* C14: the exported table has one row per model, rows in ascending order of
\* the model name, one column per threshold, and the cell at (model m,
\* threshold t) is the crossing year of m at t.
C14_ExportedTable ==
    (cell = "export" /\ error = "none" /\ AllReach) =>
        LET df == cmip6_models_warminglevels_df_rolling
        IN  /\ df.def
            /\ Len(df.index) = Len(cmip6_models)
            /\ \A m \in DOMAIN cmip6_models : \E i \in DOMAIN df.index : m \in RowModels(i)
            /\ \A i \in 1..(Len(df.index) - 1) :
                  NameRank(df.index[i]) <= NameRank(df.index[i + 1])
            /\ df.columns = temps
            /\ \A i \in DOMAIN df.index : \E m \in RowModels(i) :
                  \A j \in DOMAIN df.columns :
                      df.data[i][j] = RowCrossing(m, df.columns[j]).year

\* C18: wherever the results are read, for every threshold of the last run
\* the i-th entry of its list is the crossing year of the i-th model of
\* cmip6_models (for every model that reaches the threshold).
C18_EntryOfModel ==
    (/\ cell \in {"thresholds", "summary", "export"}
     /\ cmip6_gmtm_anom.hasModel
     /\ Len(cmip6_models) = Len(cmip6_gmtm_anom.rows)) =>
        \A i \in DOMAIN temps, m \in DOMAIN cmip6_models :
            RowReaches(m, temps[i]) =>
                /\ str(temps[i]) \in DOMAIN firstyear_rolling
                /\ Len(firstyear_rolling[str(temps[i])]) >= m
                /\ firstyear_rolling[str(temps[i])][m] = RowCrossing(m, temps[i]).year

(***************************************************************************)
(* Properties of the loop body on unguarded inputs (checked under          *)
(* SpecEdge) and of the loop run as tasks (checked under SpecTasks).       *)
(***************************************************************************)
Contiguous(years) == \A i \in 1..(Len(years) - 1) : years[i + 1] = years[i] + 1

\* C15: a series whose years are not strictly increasing and contiguous is
\* rejected with an error before any rolling mean or crossing year is
\* computed for it.
C15_MalformedRejected ==
    (cell # "start" /\ ~Contiguous(annual.year)) =>
        /\ error # "none"
        /\ ~smoothed.def
        /\ ~year_temp_smoothed.def

\* C16: with a window wider than the series the rolling mean is computed
\* without an error, has the length of the series and is undefined at every
\* year, and the threshold then comes out as unreached, not as an exception.
C16_WideWindow ==
    (cell # "start" /\ rolling_ave_window > Len(annual.year)) =>
        /\ error = "none"
        /\ smoothed.def
        /\ Len(smoothed.num) = Len(annual.year)
        /\ \A i \in DOMAIN smoothed.num : IsNaN(smoothed.num[i])

\* The threshold loop run in the order of the notebook.
Sequential ==
    TempLoop(1, temps, rolling_ave_window,
             [lists |-> NoLists, temp |-> temps[1], annual |-> Undefined,
              smoothed |-> Undefined, yts |-> NoYear, exc |-> "none"])

TasksOver ==
    /\ cell = "loop" /\ pending = {}
    /\ error # "none" \/ TempIndex = Len(temps)

\* C17: whatever the order in which the iterations of a threshold are run,
\* the lists the loop leaves are those of the run in notebook order.
C17_AnyScheduleSameResult ==
    TasksOver =>
        /\ firstyear_rolling = Sequential.lists
        /\ error = Sequential.exc

\* The crossing year of the smoothed series for another threshold.
OtherCrossing(t) == first_crossing_year(smoothed, t)

\* C19: for two thresholds the series both reaches, the crossing year of the
\* lower threshold is not later than the crossing year of the higher one.
C19_ThresholdMonotone ==
    Crossed =>
        \A t \in Range(DefaultTemps) :
            OtherCrossing(t).exc = "none" =>
                /\ t.tenths >= temp.tenths => OtherCrossing(t).year >= year_temp_smoothed.year
                /\ t.tenths <= temp.tenths => OtherCrossing(t).year <= year_temp_smoothed.year

\* A crossing followed, strictly later, by the crossing of a higher threshold.
C19_Witness ==
    /\ Crossed
    /\ \E t \in Range(DefaultTemps) :
          /\ t.tenths > temp.tenths
          /\ OtherCrossing(t).exc = "none"
          /\ OtherCrossing(t).year > year_temp_smoothed.year

\* C20: no cell of the analysis changes its inputs: the anomaly series and
\* the model names stay as they were through every step, and the thresholds
\* and the window stay as the threshold-crossing cell set them.
C20_InputsUnchanged ==
    [][/\ cmip6_gmtm_anom' = cmip6_gmtm_anom
       /\ cmip6_models' = cmip6_models
       /\ cell' # "thresholds" =>
             (temps' = temps /\ rolling_ave_window' = rolling_ave_window)]_vars

\* A completed run whose last rolling mean differs from the series it was
\* taken from, the ensemble still holding that series.
C20_Witness ==
    /\ cell = "thresholds" /\ error = "none"
    /\ cmip6_gmtm_anom.hasModel
    /\ smoothed.def /\ smoothed.num # annual.num
    /\ annual.num = cmip6_gmtm_anom.rows[Len(cmip6_models)].num

(***************************************************************************)
(* Properties of the loading cell (checked under SpecLoad).                *)
(***************************************************************************)
\* The matched historical/ssp pairs of the current dictionaries, in the order
\* of the nested loops, and the ssp dataset of a pair.
MatchedPairs ==
    SortedSeq({p \in 1..(Len(datasets_historical) * Len(datasets_ssp)) :
        datasets_historical[((p - 1) \div Len(datasets_ssp)) + 1].source_id
            = datasets_ssp[((p - 1) % Len(datasets_ssp)) + 1].source_id})
PairSsp(p) == datasets_ssp[((p - 1) % Len(datasets_ssp)) + 1]

\* The series of a matched pair on the 'year' index of cmip6_gmtm.
PairRow(p) ==
    Reindex(PairSsp(p).gmt.year, Row(PairSsp(p).gmt.num, PairSsp(p).gmt.den),
            cmip6_gmtm.year)

\* C21: after a loading loop that ran to its end, cmip6_gmtm holds as many
\* series as cmip6_models holds names, and the series at index i is the one
\* computed for the dataset pair that gave cmip6_models[i].
C21_NamesAlignSeries ==
    (cell = "load" /\ error = "none" /\ MatchedPairs # <<>>) =>
        /\ cmip6_gmtm.def
        /\ Len(cmip6_models) = Len(cmip6_gmtm.rows)
        /\ \A i \in DOMAIN cmip6_models :
              /\ i <= Len(MatchedPairs)
              /\ cmip6_models[i] = PairSsp(MatchedPairs[i]).source_id
              /\ i <= Len(cmip6_gmtm.rows) => cmip6_gmtm.rows[i] = PairRow(MatchedPairs[i])

FreshEnv ==
    [lists |-> NoLists, temp |-> Threshold(0, TRUE), annual |-> Undefined,
     smoothed |-> Undefined, yts |-> NoYear, exc |-> "none"]

\* What a run leaves for model m and threshold t: a year, or nothing.
ResultIn(lists, m, t) ==
    IF str(t) \in DOMAIN lists /\ Len(lists[str(t)]) >= m
    THEN [def |-> TRUE, year |-> lists[str(t)][m]]
    ELSE NoYear

\* The ensembles that agree with the current one on the series of model m:
\* every other model has the series of some model of the ensemble or does not
\* warm at all.
ZeroRow == Row([i \in DOMAIN cmip6_gmtm_anom.year |-> 0], 1)
Variants(m) ==
    {[cmip6_gmtm_anom EXCEPT !.rows = rs] :
        rs \in {r \in [DOMAIN cmip6_gmtm_anom.rows ->
                          Range(cmip6_gmtm_anom.rows) \cup {ZeroRow}] :
                   r[m] = cmip6_gmtm_anom.rows[m]}}

\* C23: what a run from a fresh kernel leaves for (m, t) is the same for every
\* ensemble that agrees on the series of m and every threshold list that
\* holds t, the window being the same.
C23_OwnSeriesOnly ==
    (cell = "thresholds" /\ cmip6_gmtm_anom.hasModel) =>
        \A m \in DOMAIN cmip6_gmtm_anom.rows, tl \in TempsChoices :
            \A a \in Variants(m), t \in Range(temps) \cap Range(tl) :
                ResultIn(TempLoopOn(a, cmip6_models, 1, tl, rolling_ave_window,
                                    FreshEnv).lists, m, t)
                    = ResultIn(TempLoopOn(cmip6_gmtm_anom, cmip6_models, 1, temps,
                                          rolling_ave_window, FreshEnv).lists, m, t)

\* The last run of the threshold-crossing cell stopped with an exception.
FailedRun == temps # <<>> /\ Rerun.exc # "none"

\* C24: after a run that stopped with an exception every per-threshold list
\* holds an entry for every model (none is left shorter), and an export that
\* succeeds afterwards holds no list of the failed run.
C24_NoPartialResult ==
    FailedRun =>
        /\ \A k \in DOMAIN firstyear_rolling :
              Len(firstyear_rolling[k]) >= Len(cmip6_models)
        /\ (cell = "export" /\ error = "none") =>
              \A j \in DOMAIN ExportKeys : ExportKeys[j] \notin Range(temps)

\* C25: whatever thresholds the last (complete) run had, the export succeeds,
\* its columns are the thresholds of temps, and the column of threshold t
\* holds, row by row, the crossing years the run left in the list of t.
C25_ColumnPerThreshold ==
    (cell = "export" /\ temps # <<>> /\ AllReach) =>
        LET df == cmip6_models_warminglevels_df_rolling
        IN  /\ error = "none"
            /\ df.def
            /\ df.columns = temps
            /\ \A i \in DOMAIN df.index : \E m \in RowModels(i) :
                  \A j \in DOMAIN temps :
                      df.data[i][j] = firstyear_rolling[str(temps[j])][m]

(***************************************************************************)
(* A missing value inside the window (checked under SpecFn).               *)
(***************************************************************************)
\* C26: a year whose window lies inside the series and holds a missing value
\* of the series has no rolling mean, and is not the crossing year returned.
C26_MissingInWindow ==
    (cell # "start" /\ smoothed.def) =>
        \A i \in Positions :
            (WinInside(i, rolling_ave_window) /\ WinHasNaN(i, rolling_ave_window)) =>
                /\ ~MeanDefined(i)
                /\ Crossed => year_temp_smoothed.year # annual.year[i]

\* A crossing year is returned for a series in which a later year has a
\* window with a missing value next to a value at or above the threshold.
C26_Witness ==
    /\ Crossed
    /\ \E i \in Positions :
          /\ WinInside(i, rolling_ave_window) /\ WinHasNaN(i, rolling_ave_window)
          /\ annual.year[i] > year_temp_smoothed.year
          /\ \E k \in WinFirst(i, rolling_ave_window)..WinLast(i, rolling_ave_window) :
                ~IsNaN(annual.num[k]) /\ annual.num[k] >= temp.tenths * annual.den

(***************************************************************************)
(* The distribution cell (checked under SpecPlots).                        *)
(***************************************************************************)
\* C27: whenever the distribution cell has drawn after a complete run that
\* had the 2 degree threshold, whatever cells were run in between, what it
\* drew is the list of the 2 degree threshold.
C27_DistributionAtTwoDegrees ==
    (cell = "distribution" /\ error = "none" /\ SummaryTemp \in Range(temps) /\ AllReach) =>
        /\ plotted.temp = SummaryTemp
        /\ plotted.data = firstyear_rolling[str(SummaryTemp)]

====
